---------------------------- MODULE Spec2Model ----------------------------
(***************************************************************************)
(* A model of the news pipeline of api/index.py: quick_select,            *)
(* cluster_similar_articles / direct_cluster_articles, fetch_rss_feed,    *)
(* fetch_all_feeds and the cache handling of get_news.                     *)
(*                                                                         *)
(* Each part of the program has its own specification over its own group   *)
(* of variables; the variables of the other groups stay at their idle      *)
(* values:                                                                 *)
(*   SpecSelect   quick_select                                             *)
(*   SpecCluster  cluster_similar_articles, direct_cluster_articles        *)
(*   SpecFetch    fetch_rss_feed                                           *)
(*   SpecFeeds    fetch_all_feeds                                          *)
(*   SpecNews     get_news and NEWS_CACHE                                  *)
(*   SpecAssemble get_news from the article list to the response           *)
(***************************************************************************)
EXTENDS Integers, Sequences, FiniteSets, TLC

VARIABLES
    \* quick_select
    qs_pc,        \* "call" before the call, "done" after it
    qs_arr,       \* the list passed as arr
    qs_k,         \* the argument k
    qs_ret,       \* the value returned
    \* cluster_similar_articles
    cl_pc,        \* "call" before the call, "done" after it
    cl_articles,  \* the list passed as articles
    cl_threshold, \* the threshold, a fraction num/den
    cl_ret,       \* the outcome: raised, or the clusters returned
    \* fetch_rss_feed
    fr_pc,        \* "attempt" (in the try of the retry loop), "sleep", "returned"
    fr_retry,     \* the loop variable retry
    fr_feed,      \* the entries of the feed the last attempt parsed
    fr_log,       \* what the call has done so far: attempts and sleeps
    fr_ret,       \* the value returned
    \* fetch_all_feeds
    ff_pc,        \* "collect" (in the as_completed loop) or "returned"
    ff_outcome,   \* per feed task: what its future holds once it is done
    ff_task,      \* per feed task: "running" or "done"
    ff_collected, \* the futures as_completed has yielded, in that order
    ff_all,       \* all_articles
    ff_ret,       \* the value returned
    \* get_news
    now,          \* the clock: what time.time() returns
    ticks,        \* how often the clock has advanced
    started,      \* how many requests have arrived
    NEWS_CACHE,   \* cache key -> [timestamp, articles]
    req,          \* per slot: the locals of the request in progress there
    last,         \* the request that ended last: its locals and what it did
    put,          \* cache key -> when and how often an entry was stored under it
    \* get_news, from the list `articles` to the response
    as_pc,        \* "filter", "rank", "paginate" or "done"
    as_in,        \* the request and the list `articles` of index.py 1245-1308
    as_articles,  \* `articles` after the source filter
    as_sources,   \* available_sources
    as_rank,      \* filtered_articles, total_matches and the message
    as_ret,       \* the response
    as_cache,     \* the article records of the cache entry the requests use
    as_stored,    \* the same records as they were when the entry was stored
    as_served     \* the number of requests that used the entry so far

qsVars == <<qs_pc, qs_arr, qs_k, qs_ret>>

clVars == <<cl_pc, cl_articles, cl_threshold, cl_ret>>

frVars == <<fr_pc, fr_retry, fr_feed, fr_log, fr_ret>>

ffVars == <<ff_pc, ff_outcome, ff_task, ff_collected, ff_all, ff_ret>>

gnVars == <<now, ticks, started, NEWS_CACHE, req, last, put>>

asVars == <<as_pc, as_in, as_articles, as_sources, as_rank, as_ret,
            as_cache, as_stored, as_served>>

vars == <<qs_pc, qs_arr, qs_k, qs_ret, cl_pc, cl_articles, cl_threshold, cl_ret,
          fr_pc, fr_retry, fr_feed, fr_log, fr_ret,
          ff_pc, ff_outcome, ff_task, ff_collected, ff_all, ff_ret,
          now, ticks, started, NEWS_CACHE, req, last, put,
          as_pc, as_in, as_articles, as_sources, as_rank, as_ret,
          as_cache, as_stored, as_served>>

(***************************************************************************)
(* Generic helpers.                                                        *)
(***************************************************************************)
Range(s) == {s[i] : i \in 1..Len(s)}

SeqsUpTo(S, n) == UNION {[1..m -> S] : m \in 0..n}

Min(a, b) == IF a <= b THEN a ELSE b

\* A variable that holds no value yet.
NoValue == [tag |-> "NoValue"]

\* Python's None, and a returned value.
None == [tag |-> "None"]

Some(x) == [tag |-> "Some", val |-> x]

(***************************************************************************)
(* quick_select (index.py 752-803).  Indices are the code's 0-based        *)
(* indices; arr[i] of the code is arr[i+1] here.  The key function is the  *)
(* field key of an element (get_news passes x.get('relevance', 0)).        *)
(***************************************************************************)
MaxLen == 4

MaxKey == 2

key(x) == x.key

Swap(arr, i, j) == [arr EXCEPT ![i + 1] = arr[j + 1], ![j + 1] = arr[i + 1]]

\* The for loop of partition: i runs over range(low, high).
RECURSIVE PartitionLoop(_, _, _, _, _)
PartitionLoop(arr, i, high, store_idx, pivot_val) ==
    IF i >= high
    THEN [arr |-> arr, store_idx |-> store_idx]
    ELSE IF key(arr[i + 1]) <= pivot_val
         THEN PartitionLoop(Swap(arr, i, store_idx), i + 1, high,
                            store_idx + 1, pivot_val)
         ELSE PartitionLoop(arr, i + 1, high, store_idx, pivot_val)

partition(arr, low, high, pivot_idx) ==
    LET pivot_val == key(arr[pivot_idx + 1])
        moved == Swap(arr, pivot_idx, high)
        looped == PartitionLoop(moved, low, high, low, pivot_val)
    IN  [arr |-> Swap(looped.arr, high, looped.store_idx),
         store_idx |-> looped.store_idx]

RECURSIVE select(_, _, _, _)
select(arr, low, high, k_idx) ==
    IF low = high
    THEN arr[low + 1]
    ELSE LET p == partition(arr, low, high, (low + high) \div 2)
         IN  IF k_idx = p.store_idx
             THEN p.arr[k_idx + 1]
             ELSE IF k_idx < p.store_idx
                  THEN select(p.arr, low, p.store_idx - 1, k_idx)
                  ELSE select(p.arr, p.store_idx + 1, high, k_idx)

\* A plausible slip: the index of the k-th smallest instead of the k-th largest.
quick_select_smallest(arr, k) ==
    IF arr = <<>> \/ k < 1 \/ k > Len(arr)
    THEN None
    ELSE Some(select(arr, 0, Len(arr) - 1, k - 1))

\* A plausible slip: an out-of-range k is clamped instead of refused.
quick_select_clamped(arr, k) ==
    IF arr = <<>>
    THEN None
    ELSE LET kk == IF k < 1 THEN 1 ELSE Min(k, Len(arr))
         IN  Some(select(arr, 0, Len(arr) - 1, Len(arr) - kk))

quick_select(arr, k) ==
    IF arr = <<>> \/ k < 1 \/ k > Len(arr)
    THEN None
    ELSE Some(select(arr, 0, Len(arr) - 1, Len(arr) - k))

(***************************************************************************)
(* Articles for clustering.  An article is a record with an id and words,  *)
(* the list re.findall(r'\w+', f"{title} {summary}".lower()) yields.  A    *)
(* word is a number; the numbers are in the lexical order of the words     *)
(* ("ai" < "cat" < "dog" < "emu"), and WordLen gives the word's length.    *)
(***************************************************************************)
WordLen(w) == IF w = 1 THEN 2 ELSE 3

\* A threshold is the fraction num/den; the default is 0.6.
DefaultThreshold == [num |-> 6, den |-> 10]

WordSet(article) == Range(article.words)

\* The comparison without the test of index.py 914.
JaccardSimilarUnguarded(words1, words2, threshold) ==
    Cardinality(words1 \cap words2) * threshold.den
        >= threshold.num * Cardinality(words1 \cup words2)

\* similarity >= threshold, for similarity = |inter| / |union| (index.py 914-916).
JaccardSimilar(words1, words2, threshold) ==
    /\ words1 # {}
    /\ words2 # {}
    /\ Cardinality(words1 \cap words2) * threshold.den
           >= threshold.num * Cardinality(words1 \cup words2)

\* The inner loop of direct_cluster_articles: j runs over i+1 .. len-1
\* (positions j of the code are j+1 here).
RECURSIVE DirectInner(_, _, _, _, _, _)
DirectInner(articles, j, used, cluster, words1, threshold) ==
    IF j > Len(articles)
    THEN [used |-> used, cluster |-> cluster]
    ELSE LET other == articles[j]
         IN  IF other.id \in used
             THEN DirectInner(articles, j + 1, used, cluster, words1, threshold)
             ELSE IF JaccardSimilar(words1, WordSet(other), threshold)
                  THEN DirectInner(articles, j + 1, used \cup {other.id},
                                   Append(cluster, other), words1, threshold)
                  ELSE DirectInner(articles, j + 1, used, cluster, words1, threshold)

RECURSIVE DirectOuter(_, _, _, _, _)
DirectOuter(articles, i, used, clusters, threshold) ==
    IF i > Len(articles)
    THEN clusters
    ELSE LET article == articles[i]
         IN  IF article.id \in used
             THEN DirectOuter(articles, i + 1, used, clusters, threshold)
             ELSE LET inner == DirectInner(articles, i + 1, used \cup {article.id},
                                           <<article>>, WordSet(article), threshold)
                  IN  DirectOuter(articles, i + 1, inner.used,
                                  Append(clusters, inner.cluster), threshold)

direct_cluster_articles(articles, threshold) ==
    DirectOuter(articles, 1, {}, <<>>, threshold)

\* The words of an article that count for its embedding (len(word) > 2).
LongWords(article) == {w \in WordSet(article) : WordLen(w) > 2}

WordFreq(article, w) ==
    Cardinality({i \in 1..Len(article.words) : article.words[i] = w})

\* The least element of a non-empty set of numbers.
Least(S) == CHOOSE x \in S : \A y \in S : x <= y

\* The term frequencies in the order of sorted(word_freq.keys()).  The code
\* divides each by doc_len; the count vector and doc_len are kept apart here
\* (the cosine of two vectors does not change when either is scaled).
RECURSIVE FreqVector(_, _)
FreqVector(article, ws) ==
    IF ws = {}
    THEN <<>>
    ELSE LET w == Least(ws)
         IN  <<WordFreq(article, w)>> \o FreqVector(article, ws \ {w})

Vec(article) == FreqVector(article, LongWords(article))

\* embeddings: id -> vector; a later article with the same id overwrites an
\* earlier one, an article without long words gets no entry.
HasEmbedding(articles, id) ==
    \E i \in 1..Len(articles) : articles[i].id = id /\ Vec(articles[i]) # <<>>

Embedding(articles, id) ==
    LET latest == CHOOSE i \in 1..Len(articles) :
                    /\ articles[i].id = id
                    /\ Vec(articles[i]) # <<>>
                    /\ \A j \in (i + 1)..Len(articles) :
                           ~(articles[j].id = id /\ Vec(articles[j]) # <<>>)
    IN  Vec(articles[latest])

RECURSIVE Dot(_, _)
Dot(v1, v2) ==
    IF v1 = <<>> \/ v2 = <<>> THEN 0 ELSE Head(v1) * Head(v2) + Dot(Tail(v1), Tail(v2))

\* cosine_similarity(vec1, vec2) >= threshold (index.py 738-749), decided on
\* the squares: dot / (mag1 * mag2) >= num / den.  Empty or unequal-length
\* vectors and a zero magnitude give similarity 0.0.
CosineAtLeast(vec1, vec2, threshold) ==
    IF vec1 = <<>> \/ vec2 = <<>> \/ Len(vec1) # Len(vec2)
       \/ Dot(vec1, vec1) * Dot(vec2, vec2) = 0
    THEN threshold.num <= 0
    ELSE Dot(vec1, vec2) * Dot(vec1, vec2) * threshold.den * threshold.den
             >= threshold.num * threshold.num * Dot(vec1, vec1) * Dot(vec2, vec2)

\* index.py 859-872: some pair across the two clusters, both with an
\* embedding of the same length, is similar.
CrossSimilar(embArticles, left_cluster, right_cluster, threshold) ==
    \E r \in 1..Len(right_cluster), l \in 1..Len(left_cluster) :
        /\ HasEmbedding(embArticles, right_cluster[r].id)
        /\ HasEmbedding(embArticles, left_cluster[l].id)
        /\ LET r_emb == Embedding(embArticles, right_cluster[r].id)
               l_emb == Embedding(embArticles, left_cluster[l].id)
           IN  Len(r_emb) = Len(l_emb) /\ CosineAtLeast(r_emb, l_emb, threshold)

\* The outcome of a call: the clusters, or the exception that escaped.
Returned(clusters) == [raised |-> "", clusters |-> clusters]

Raised(exc) == [raised |-> exc, clusters |-> <<>>]

\* The merge loop (index.py 853-886).  A right cluster similar to a cluster
\* of result reaches line 874, list(set(left_cluster + right_cluster)): the
\* articles are dicts, which are unhashable, so set() raises TypeError.
RECURSIVE MergeLoop(_, _, _, _, _)
MergeLoop(embArticles, result, right_clusters, j, threshold) ==
    IF j > Len(right_clusters)
    THEN Returned(result)
    ELSE IF \E i \in 1..Len(result) :
                CrossSimilar(embArticles, result[i], right_clusters[j], threshold)
         THEN Raised("TypeError")
         ELSE MergeLoop(embArticles, Append(result, right_clusters[j]),
                        right_clusters, j + 1, threshold)

\* The size up to which direct comparison is used (index.py 821).
DirectLimit == 5

RECURSIVE cluster_similar_articles(_, _)
cluster_similar_articles(articles, threshold) ==
    IF articles = <<>>
    THEN Returned(<<>>)
    ELSE IF Len(articles) <= DirectLimit
    THEN Returned(direct_cluster_articles(articles, threshold))
    ELSE LET mid == Len(articles) \div 2
             left == cluster_similar_articles(SubSeq(articles, 1, mid), threshold)
         IN  IF left.raised # ""
             THEN left
             ELSE LET right == cluster_similar_articles(
                                   SubSeq(articles, mid + 1, Len(articles)), threshold)
                  IN  IF right.raised # ""
                      THEN right
                      ELSE MergeLoop(articles, left.clusters, right.clusters, 1,
                                     threshold)

(***************************************************************************)
(* fetch_rss_feed (index.py 996-1063).  One attempt is one pass through    *)
(* the try block of the retry loop.  What feedparser and the feed do is    *)
(* the attempt's outcome: the attempt raises, the feed has no entries, or  *)
(* the feed has entries, each of which is a title (extraction succeeds) or *)
(* BadEntry (extraction raises inside the per-entry try).                  *)
(***************************************************************************)
MaxRetries == 3

BadEntry == "<bad>"

\* The articles of the entries whose extraction succeeds, in feed order
\* (index.py 1017-1052): a failing entry is skipped.
RECURSIVE ProcessEntries(_)
ProcessEntries(entries) ==
    IF entries = <<>>
    THEN <<>>
    ELSE IF Head(entries) = BadEntry
         THEN ProcessEntries(Tail(entries))
         ELSE <<[title |-> Head(entries)]>> \o ProcessEntries(Tail(entries))

\* A plausible slip: the last retry is taken to be retry = max_retries.
IsLastRetryOffByOne(retry) == retry = MaxRetries

\* index.py 1058.
IsLastRetry(retry) == retry = MaxRetries - 1

\* A plausible slip: the handler sleeps before it looks at the retry count.
ExceptStepAlwaysSleep(retry) == [pc |-> "sleep", ret |-> NoValue]

\* The except handler (index.py 1057-1063): give up with [] on the last
\* retry, sleep before the next one otherwise.
ExceptStep(retry) ==
    IF IsLastRetry(retry)
    THEN [pc |-> "returned", ret |-> Some(<<>>)]
    ELSE [pc |-> "sleep", ret |-> NoValue]

\* A plausible slip: a feed without entries is handled as a failed attempt.
ZeroEntriesAsFailure(retry) == ExceptStep(retry)

\* index.py 1007-1009: a feed with no entries returns [] at once.
ZeroEntriesStep(retry) == [pc |-> "returned", ret |-> Some(<<>>)]

\* The end of one iteration that did not return: the for loop takes the
\* next retry, or ends, and the function then returns None implicitly.
LoopStep(retry) ==
    IF retry + 1 < MaxRetries
    THEN [pc |-> "attempt", retry |-> retry + 1, ret |-> NoValue]
    ELSE [pc |-> "returned", retry |-> retry, ret |-> None]

(***************************************************************************)
(* fetch_all_feeds (index.py 1148-1180).  An article is a record with a    *)
(* title and the feed it came from.                                        *)
(***************************************************************************)
\* index.py 1173-1180: the first article of each title is kept, in the
\* order of first appearance (dict insertion order).
RECURSIVE DedupByTitle(_, _)
DedupByTitle(articles, seen) ==
    IF articles = <<>>
    THEN <<>>
    ELSE IF Head(articles).title \in seen
         THEN DedupByTitle(Tail(articles), seen)
         ELSE <<Head(articles)>>
                  \o DedupByTitle(Tail(articles), seen \cup {Head(articles).title})

\* A plausible slip: the deduplication step is left out.
NoDedup(articles) == articles

UniqueByTitle(articles) == DedupByTitle(articles, {})

\* A plausible slip: an exception of future.result() is not caught and
\* ends the call.
CollectUnguarded(all_articles, outcome) ==
    IF outcome.raises
    THEN [pc |-> "raised", all |-> all_articles]
    ELSE [pc |-> "collect", all |-> all_articles \o outcome.articles]

\* index.py 1161-1167: the result of one completed future is added to
\* all_articles; an exception of future.result() is logged and skipped.
CollectStep(all_articles, outcome) ==
    IF outcome.raises
    THEN [pc |-> "collect", all |-> all_articles]
    ELSE [pc |-> "collect", all |-> all_articles \o outcome.articles]

(***************************************************************************)
(* get_news and NEWS_CACHE (index.py 734-735, 1211-1409).  A cache key     *)
(* f"{language}-{category}" or f"{language}-all" is the pair of its two    *)
(* parts.  RSS_FEEDS gives, per category, the languages that have feeds:   *)
(* as in the table of the source, every category has "en" and only "News"  *)
(* has other languages.                                                    *)
(***************************************************************************)
CACHE_EXPIRY == 1800

CategoryThreshold == 10

GeneralThreshold == 30

\* request.category when it is None or empty, and the oracle's "no category".
NoCategory == ""

RSS_FEEDS == [News |-> {"en", "hi"}, Tech |-> {"en"}]

\* index.py 1222-1223: without a category, a query is given to
\* determine_category_for_query, which returns a category of RSS_FEEDS or
\* None (index.py 1182-1208); oracle is what it returns.
ResolveCategory(category, query, oracle) ==
    IF category = NoCategory /\ query # "" THEN oracle ELSE category

\* index.py 1240 and 1282.
CacheKey(language, category) ==
    IF category # NoCategory THEN <<language, category>> ELSE <<language, "all">>

\* A plausible slip: an entry is still taken at the age of CACHE_EXPIRY.
CacheLiveInclusive(cache, cache_key, current_time) ==
    /\ cache_key \in DOMAIN cache
    /\ current_time - cache[cache_key].timestamp <= CACHE_EXPIRY

\* index.py 1243 and 1285: the test for a cache hit.
CacheLive(cache, cache_key, current_time) ==
    /\ cache_key \in DOMAIN cache
    /\ current_time - cache[cache_key].timestamp < CACHE_EXPIRY

\* A plausible slip: a store under a key that has an entry updates the
\* list of the entry and leaves its timestamp.
CacheStoreKeepsTimestamp(cache, cache_key, current_time, articles) ==
    [k \in DOMAIN cache \cup {cache_key} |->
        IF k = cache_key
        THEN [timestamp |-> IF k \in DOMAIN cache THEN cache[k].timestamp
                                                  ELSE current_time,
              articles |-> articles]
        ELSE cache[k]]

\* index.py 1276-1279 and 1305-1308: NEWS_CACHE[cache_key] = {...}.
CacheStore(cache, cache_key, current_time, articles) ==
    [k \in DOMAIN cache \cup {cache_key} |->
        IF k = cache_key
        THEN [timestamp |-> current_time, articles |-> articles]
        ELSE cache[k]]

\* index.py 1248 and 1290: the feed table has feeds in the language, for the
\* category or, without a category, among the general feeds.
LanguageHasFeeds(language, category) ==
    IF category # NoCategory
    THEN language \in RSS_FEEDS[category]
    ELSE language \in RSS_FEEDS["News"]

\* A plausible slip: the feeds of the requested language are taken whether
\* or not the table has them.
FeedLanguageNoFallback(language, category) == language

\* index.py 1248-1265 and 1290-1297: the language whose feeds are fetched;
\* "" when the category has feeds neither for the language nor for "en".
FeedLanguage(language, category) ==
    IF category # NoCategory
    THEN IF language \in RSS_FEEDS[category]
         THEN language
         ELSE IF "en" \in RSS_FEEDS[category] THEN "en" ELSE ""
    ELSE IF language \in RSS_FEEDS["News"] THEN language ELSE "en"

\* A plausible slip: the not-found response counts one page.
CategoryNotFoundOnePage(category, page) ==
    [articles |-> <<>>,
     message |-> [text |-> "category_not_found", names |-> category],
     total_found |-> 0, total_pages |-> 1, current_page |-> page,
     available_sources |-> <<>>, available_categories |-> DOMAIN RSS_FEEDS]

\* index.py 1229-1237: the NewsResponse for a category that RSS_FEEDS does
\* not have; its message is f"Category '{category}' not found. ...".
CategoryNotFoundResponse(category, page) ==
    [articles |-> <<>>,
     message |-> [text |-> "category_not_found", names |-> category],
     total_found |-> 0, total_pages |-> 0, current_page |-> page,
     available_sources |-> <<>>, available_categories |-> DOMAIN RSS_FEEDS]

\* index.py 1271 and 1300: below this size the fallback source is asked.
FallbackThreshold(category) ==
    IF category # NoCategory THEN CategoryThreshold ELSE GeneralThreshold

\* index.py 1273 and 1302: articles.extend(news_api_articles).
ExtendWithFallback(articles, news_api_articles) == articles \o news_api_articles

(***************************************************************************)
(* The assembly of the response in get_news (index.py 1310-1406).  A       *)
(* source name and a preferred source are strings, here sequences of       *)
(* characters; published_date is the position of the ISO string of the     *)
(* article in the order of strings, which is the order sorted() uses.      *)
(* An article that has no relevance yet has NoRelevance in that field.     *)
(***************************************************************************)
\* str.lower() on one character.
LowerChar(c) ==
    CASE c = "A" -> "a"
      [] c = "B" -> "b"
      [] c = "C" -> "c"
      [] c = "N" -> "n"
      [] OTHER -> c

\* str.lower().
Lower(s) == [i \in 1..Len(s) |-> LowerChar(s[i])]

\* Python's `sub in s` on strings.
IsSubstring(sub, s) ==
    \E i \in 0..(Len(s) - Len(sub)) :
        \A j \in 1..Len(sub) : s[i + j] = sub[j]

\* A plausible slip: the names are compared as they are written.
SourceMatchesCaseSensitive(article, preferred_sources) ==
    \E i \in 1..Len(preferred_sources) :
        IsSubstring(preferred_sources[i], article.source)

\* index.py 1321-1322: any(ps.lower() in a["source"]["name"].lower() ...).
SourceMatches(article, preferred_sources) ==
    \E i \in 1..Len(preferred_sources) :
        IsSubstring(Lower(preferred_sources[i]), Lower(article.source))

\* index.py 1321-1323: the list comprehension.
RECURSIVE KeepMatching(_, _)
KeepMatching(articles, preferred_sources) ==
    IF articles = <<>>
    THEN <<>>
    ELSE IF SourceMatches(Head(articles), preferred_sources)
         THEN <<Head(articles)>> \o KeepMatching(Tail(articles), preferred_sources)
         ELSE KeepMatching(Tail(articles), preferred_sources)

\* index.py 1320-1323: the filter is applied to a non-empty list only.
FilterBySource(articles, preferred_sources) ==
    IF preferred_sources # <<>>
    THEN KeepMatching(articles, preferred_sources)
    ELSE articles

\* index.py 1311-1317: the source names in the order of first appearance.
RECURSIVE AvailableSources(_, _)
AvailableSources(articles, seen) ==
    IF articles = <<>>
    THEN <<>>
    ELSE IF Head(articles).source \in seen
         THEN AvailableSources(Tail(articles), seen)
         ELSE <<Head(articles).source>>
                  \o AvailableSources(Tail(articles), seen \cup {Head(articles).source})

\* An element together with its sort key.
Keyed(k, x) == [key |-> k, item |-> x]

Items(keyed) == [i \in 1..Len(keyed) |-> keyed[i].item]

\* Where sorted(..., reverse=True) puts x among the elements sorted so far:
\* after every element whose key is not smaller (the sort is stable).
RECURSIVE InsertDescending(_, _)
InsertDescending(sorted, x) ==
    IF sorted = <<>>
    THEN <<x>>
    ELSE IF Head(sorted).key >= x.key
         THEN <<Head(sorted)>> \o InsertDescending(Tail(sorted), x)
         ELSE <<x>> \o sorted

\* A plausible slip: the sort without reverse=True.
RECURSIVE InsertAscending(_, _)
InsertAscending(sorted, x) ==
    IF sorted = <<>>
    THEN <<x>>
    ELSE IF Head(sorted).key <= x.key
         THEN <<Head(sorted)>> \o InsertAscending(Tail(sorted), x)
         ELSE <<x>> \o sorted

RECURSIVE SortedAscending(_)
SortedAscending(keyed) ==
    IF keyed = <<>>
    THEN <<>>
    ELSE InsertAscending(SortedAscending(SubSeq(keyed, 1, Len(keyed) - 1)),
                         keyed[Len(keyed)])

\* sorted(keyed, key=..., reverse=True) (index.py 1356, 1362, 1368).
RECURSIVE SortedDescending(_)
SortedDescending(keyed) ==
    IF keyed = <<>>
    THEN <<>>
    ELSE InsertDescending(SortedDescending(SubSeq(keyed, 1, Len(keyed) - 1)),
                          keyed[Len(keyed)])

\* index.py 1362 and 1368: sorted by x.get("published_date", ""), newest
\* first.
ByDateNewestFirst(articles) ==
    Items(SortedDescending(
        [i \in 1..Len(articles) |-> Keyed(articles[i].published_date, articles[i])]))

\* A relevance is a number of ScoreScale-ths: 1.0 is ScoreScale.  With this
\* unit 0.3 * m / n and 0.4 * m / n are whole numbers for up to 6 terms.
ScoreScale == 600

\* The field relevance of an article that has none.
NoRelevance == -1

\* The age of an article whose published date does not parse.
NoDate == -1

Max(a, b) == IF a >= b THEN a ELSE b

\* The text the scorer looks at: title and summary, lowercased, as words.
Combined(article) == article.title \o article.summary

\* How many of the terms of the query occur in the text.
TermMatches(query, text) ==
    Cardinality({i \in 1..Len(query) : query[i] \in Range(text)})

\* 0.5 if the whole query occurs verbatim in the combined text.
ExactMatchBonus(article, query) ==
    IF IsSubstring(query, Combined(article)) THEN ScoreScale \div 2 ELSE 0

\* 0.3 * term_ratio.
TermBonus(article, query) ==
    (3 * (ScoreScale \div 10) * TermMatches(query, Combined(article))) \div Len(query)

\* 0.4 * title_ratio.
TitleBonus(article, query) ==
    (4 * (ScoreScale \div 10) * TermMatches(query, article.title)) \div Len(query)

\* The sports-context keywords and the team acronyms, as words: 1 is "vs",
\* 2 is "csk".
SportsKeywords == {1}

TeamAcronyms == {2}

\* 0.2 * min(1, number of team acronyms in the text), for a query with a
\* sports keyword.
SportsBoost(article, query) ==
    IF Range(query) \cap SportsKeywords # {}
    THEN 2 * (ScoreScale \div 10)
           * Min(1, Cardinality({i \in 1..Len(Combined(article)) :
                                    Combined(article)[i] \in TeamAcronyms}))
    ELSE 0

\* Up to 0.1, less 0.01 per elapsed day, not below 0; nothing without a
\* date that parses.
RecencyBonus(article) ==
    IF article.days = NoDate
    THEN 0
    ELSE Max(0, Min(ScoreScale \div 10,
                    ScoreScale \div 10 - (ScoreScale \div 100) * article.days))

\* The sum of the five terms.
RawScore(article, query) ==
    ExactMatchBonus(article, query) + TermBonus(article, query)
        + TitleBonus(article, query) + SportsBoost(article, query)
        + RecencyBonus(article)

\* A plausible slip: the sum is returned as it is.
relevance_score_unclamped(article, query) == RawScore(article, query)

\* The score: the sum, clamped to a maximum of 1.0.
relevance_score(article, query) == Min(RawScore(article, query), ScoreScale)

\* An article stays in the scored set if its score exceeds 0.2 or it has a
\* literal term match.
Retained(article, query) ==
    \/ relevance_score(article, query) > 2 * (ScoreScale \div 10)
    \/ TermMatches(query, Combined(article)) >= 1

RECURSIVE ScoreAndKeep(_, _)
ScoreAndKeep(articles, query) ==
    IF articles = <<>>
    THEN <<>>
    ELSE IF Retained(Head(articles), query)
         THEN <<[Head(articles) EXCEPT
                    !.relevance = relevance_score(Head(articles), query)]>>
                  \o ScoreAndKeep(Tail(articles), query)
         ELSE ScoreAndKeep(Tail(articles), query)

\* x.get('relevance', 0) (index.py 1350, 1356).
RelevanceOrZero(article) ==
    IF article.relevance = NoRelevance THEN 0 ELSE article.relevance

ByRelevance(articles) ==
    Items(SortedDescending(
        [i \in 1..Len(articles) |-> Keyed(RelevanceOrZero(articles[i]), articles[i])]))

\* advanced_semantic_search(articles, query): the scored articles that are
\* retained, by descending score, and their number.
advanced_semantic_search(articles, query) ==
    LET scored == ByRelevance(ScoreAndKeep(articles, query))
    IN  [filtered_articles |-> scored, total_matches |-> Len(scored)]

\* index.py 1355: the representatives are used if they are at least
\* min(10, len(filtered_articles)).
DiverseMinimum == 10

\* index.py 1347-1352: the best article of each cluster, by
\* quick_select(cluster, 1, key=relevance); a result that is None is left out.
RECURSIVE Representatives(_)
Representatives(article_clusters) ==
    IF article_clusters = <<>>
    THEN <<>>
    ELSE LET cluster == Head(article_clusters)
             best_article ==
                 quick_select([i \in 1..Len(cluster) |->
                                  Keyed(RelevanceOrZero(cluster[i]), cluster[i])], 1)
         IN  IF Len(cluster) > 0 /\ best_article # None
             THEN <<best_article.val.item>> \o Representatives(Tail(article_clusters))
             ELSE Representatives(Tail(article_clusters))

\* The outcome of the step that ranks: the exception that escaped, or
\* filtered_articles, total_matches and the message.
Ranked(filtered_articles, total_matches, text) ==
    [raised |-> "", filtered_articles |-> filtered_articles,
     total_matches |-> total_matches, text |-> text]

RankRaised(exc) ==
    [raised |-> exc, filtered_articles |-> <<>>, total_matches |-> 0, text |-> ""]

\* index.py 1338-1371.
Rank(articles, query) ==
    IF query # <<>>
    THEN LET search == advanced_semantic_search(articles, query)
         IN  IF search.filtered_articles # <<>>
             THEN LET clustering == cluster_similar_articles(search.filtered_articles,
                                                             DefaultThreshold)
                      diverse_results == Representatives(clustering.clusters)
                  IN  IF clustering.raised # ""
                      THEN RankRaised(clustering.raised)
                      ELSE Ranked(
                               IF Len(diverse_results)
                                      >= Min(DiverseMinimum, Len(search.filtered_articles))
                               THEN ByRelevance(diverse_results)
                               ELSE search.filtered_articles,
                               search.total_matches, "found")
             ELSE Ranked(ByDateNewestFirst(articles), Len(articles), "no_exact_matches")
    ELSE Ranked(ByDateNewestFirst(articles), Len(articles), "showing_recent")

\* A plausible slip: the page count rounds down.
TotalPagesRoundedDown(total_matches, page_size) == total_matches \div page_size

\* index.py 1386, for page_size > 0.
TotalPages(total_matches, page_size) ==
    (total_matches + page_size - 1) \div page_size

\* Python's s[start:end] on a list: a negative index counts from the end,
\* and both are clipped to the list.
PySlice(s, start, end) ==
    LET clip(i) == IF i < 0 THEN Max(Len(s) + i, 0) ELSE Min(i, Len(s))
    IN  SubSeq(s, clip(start) + 1, clip(end))

\* index.py 1387-1391.
PageOf(filtered_articles, total_matches, page, page_size) ==
    LET start_idx == (page - 1) * page_size
        end_idx == Min(start_idx + page_size, total_matches)
    IN  PySlice(filtered_articles, start_idx, end_idx)

\* index.py 1394-1396: an article of the page without a relevance gets 0.5.
WithDefaultRelevance(paged_articles) ==
    [i \in 1..Len(paged_articles) |->
        IF paged_articles[i].relevance = NoRelevance
        THEN [paged_articles[i] EXCEPT !.relevance = ScoreScale \div 2]
        ELSE paged_articles[i]]

\* The records of a cache entry after index.py 1394-1396 ran over the page:
\* the page holds the dicts of the cached list themselves (index.py 1245,
\* 1321, 1362, 1368 and 1391 build new lists of the same dicts), so the
\* assignment article["relevance"] = 0.5 is made in the cached record.
CacheAfterPage(cached, paged_articles) ==
    [i \in 1..Len(cached) |->
        IF \E j \in 1..Len(paged_articles) :
               /\ paged_articles[j].id = cached[i].id
               /\ paged_articles[j].relevance = NoRelevance
        THEN [cached[i] EXCEPT !.relevance = ScoreScale \div 2]
        ELSE cached[i]]

\* A NewsResponse; status 500 stands for the HTTPException of index.py 1409.
NewsResponse(articles, text, total_found, total_pages, page, available_sources) ==
    [status |-> 200, articles |-> articles, message |-> text,
     total_found |-> total_found, total_pages |-> total_pages,
     current_page |-> page, available_sources |-> available_sources,
     available_categories |-> DOMAIN RSS_FEEDS]

InternalError == [status |-> 500]

\* A plausible slip: the empty response reports the articles before the
\* filter.
EmptyResponseCountingAll(text, page, available_sources) ==
    NewsResponse(<<>>, text, Len(available_sources), 1, page, available_sources)

\* index.py 1325-1333 and 1375-1383.
EmptyResponse(text, page, available_sources) ==
    NewsResponse(<<>>, text, 0, 0, page, available_sources)

(***************************************************************************)
(* The idle values of each group of variables.                             *)
(***************************************************************************)
QsIdle == qs_pc = "idle" /\ qs_arr = <<>> /\ qs_k = 0 /\ qs_ret = NoValue

ClIdle ==
    /\ cl_pc = "idle"
    /\ cl_articles = <<>>
    /\ cl_threshold = DefaultThreshold
    /\ cl_ret = NoValue

FrIdle ==
    /\ fr_pc = "idle"
    /\ fr_retry = 0
    /\ fr_feed = <<>>
    /\ fr_log = <<>>
    /\ fr_ret = NoValue

FfIdle ==
    /\ ff_pc = "idle"
    /\ ff_outcome = <<>>
    /\ ff_task = <<>>
    /\ ff_collected = <<>>
    /\ ff_all = <<>>
    /\ ff_ret = NoValue

GnIdle ==
    /\ now = 0
    /\ ticks = 0
    /\ started = 0
    /\ NEWS_CACHE = <<>>
    /\ req = <<>>
    /\ last = NoValue
    /\ put = <<>>

AsIdle ==
    /\ as_pc = "idle"
    /\ as_in = NoValue
    /\ as_articles = <<>>
    /\ as_sources = <<>>
    /\ as_rank = NoValue
    /\ as_ret = NoValue
    /\ as_cache = <<>>
    /\ as_stored = <<>>
    /\ as_served = 0

(***************************************************************************)
(* SpecSelect: one call of quick_select on every bounded input.            *)
(***************************************************************************)
\* The elements: element i of the input carries id i, so that equal keys
\* do not make two members equal.
QsInputs ==
    UNION {{[i \in 1..n |-> [id |-> i, key |-> ks[i]]] : ks \in [1..n -> 0..MaxKey]}
           : n \in 0..MaxLen}

InitSelect ==
    /\ qs_pc = "call"
    /\ qs_arr \in QsInputs
    /\ qs_k \in -1..(MaxLen + 1)
    /\ qs_ret = NoValue
    /\ ClIdle /\ FrIdle /\ FfIdle /\ GnIdle /\ AsIdle

QuickSelectCall ==
    /\ qs_pc = "call"
    /\ qs_ret' = quick_select(qs_arr, qs_k)
    /\ qs_pc' = "done"
    /\ UNCHANGED <<qs_arr, qs_k>>
    /\ UNCHANGED <<clVars, frVars, ffVars, gnVars, asVars>>

NextSelect == QuickSelectCall

SpecSelect == InitSelect /\ [][NextSelect]_vars

\* The number of members of arr whose key is at least / at most v.
CountGe(arr, v) == Cardinality({i \in 1..Len(arr) : key(arr[i]) >= v})

CountLe(arr, v) == Cardinality({i \in 1..Len(arr) : key(arr[i]) <= v})

QsInRange == qs_arr # <<>> /\ 1 <= qs_k /\ qs_k <= Len(qs_arr)

\* C2: for a non-empty arr and 1 <= k <= len(arr), quick_select returns a
\* member of arr whose key is the k-th largest key counting duplicates: at
\* least k members have a key >= it and at least len(arr)-k+1 members have a
\* key <= it; for k = 1 its key is the maximum.
C2_KthLargest ==
    (qs_pc = "done" /\ QsInRange) =>
        /\ qs_ret.tag = "Some"
        /\ qs_ret.val \in Range(qs_arr)
        /\ CountGe(qs_arr, key(qs_ret.val)) >= qs_k
        /\ CountLe(qs_arr, key(qs_ret.val)) >= Len(qs_arr) - qs_k + 1
        /\ (qs_k = 1 => \A i \in 1..Len(qs_arr) : key(qs_arr[i]) <= key(qs_ret.val))

\* A list with a repeated key and a smaller one, asked for its 2nd largest.
C2_Witness ==
    /\ qs_pc = "done"
    /\ Len(qs_arr) = MaxLen
    /\ qs_k = 2
    /\ \E i, j \in 1..Len(qs_arr) : i # j /\ key(qs_arr[i]) = key(qs_arr[j])
    /\ \E i, j \in 1..Len(qs_arr) : key(qs_arr[i]) < key(qs_arr[j])
    /\ qs_ret.tag = "Some"

\* C3: quick_select returns None when arr is empty, when k < 1 or when
\* k > len(arr); on a single-element list with k = 1 it returns that element.
C3_Degenerate ==
    qs_pc = "done" =>
        /\ (~QsInRange => qs_ret = None)
        /\ (Len(qs_arr) = 1 /\ qs_k = 1 => qs_ret = Some(qs_arr[1]))

C3_Witness ==
    /\ qs_pc = "done"
    /\ Len(qs_arr) = 2
    /\ qs_k = 3
    /\ qs_ret = None


(***************************************************************************)
(* SpecCluster: one call of cluster_similar_articles on every bounded      *)
(* input.                                                                  *)
(***************************************************************************)
MaxArticles == 6

\* "cat dog", "cat dog emu", "cat cat cat cat emu", "ai", and the empty text.
ClTexts == {<<2, 3>>, <<2, 3, 4>>, <<2, 2, 2, 2, 4>>, <<1>>, <<>>}

ClThresholds == {DefaultThreshold, [num |-> 3, den |-> 10]}

\* Article i of the input has id i.  With dup, the last article has the id
\* of the first: the id is hash(title + source name), so the same story
\* fetched twice from one source has the same id.
ClInput(texts, dup) ==
    [i \in 1..Len(texts) |->
        [id |-> IF dup /\ i = Len(texts) THEN 1 ELSE i, words |-> texts[i]]]

InitCluster ==
    /\ cl_pc = "call"
    /\ \E texts \in SeqsUpTo(ClTexts, MaxArticles), dup \in BOOLEAN :
           cl_articles = ClInput(texts, dup)
    /\ cl_threshold \in ClThresholds
    /\ cl_ret = NoValue
    /\ QsIdle /\ FrIdle /\ FfIdle /\ GnIdle /\ AsIdle

ClusterCall ==
    /\ cl_pc = "call"
    /\ cl_ret' = cluster_similar_articles(cl_articles, cl_threshold)
    /\ cl_pc' = "done"
    /\ UNCHANGED <<cl_articles, cl_threshold>>
    /\ UNCHANGED <<qsVars, frVars, ffVars, gnVars, asVars>>

NextCluster == ClusterCall

SpecCluster == InitCluster /\ [][NextCluster]_vars

RECURSIVE Flatten(_)
Flatten(clusters) ==
    IF clusters = <<>> THEN <<>> ELSE Head(clusters) \o Flatten(Tail(clusters))

Occurrences(s, x) == Cardinality({i \in 1..Len(s) : s[i] = x})

\* The clusters, flattened, hold every article of the input exactly as
\* often as the input does, and no cluster is empty.
IsPartition(clusters, articles) ==
    /\ Len(Flatten(clusters)) = Len(articles)
    /\ \A a \in Range(articles) :
           Occurrences(Flatten(clusters), a) = Occurrences(articles, a)
    /\ \A c \in 1..Len(clusters) : clusters[c] # <<>>

\* C1: for every input list, of any length and with any threshold,
\* cluster_similar_articles returns normally and the clusters it returns are
\* a partition of the input: every article exactly once, no empty cluster.
C1_Partition ==
    cl_pc = "done" =>
        /\ cl_ret.raised = ""
        /\ IsPartition(cl_ret.clusters, cl_articles)


(***************************************************************************)
(* SpecFetch: one call of fetch_rss_feed(feed_url) with the default        *)
(* max_retries, under every outcome of every attempt.                      *)
(***************************************************************************)
MaxEntries == 3

FrTitles == {"t1", "t2"}

FrFeeds == SeqsUpTo(FrTitles \cup {BadEntry}, MaxEntries) \ {<<>>}

InitFetch ==
    /\ fr_pc = "attempt"
    /\ fr_retry = 0
    /\ fr_feed = <<>>
    /\ fr_log = <<>>
    /\ fr_ret = NoValue
    /\ QsIdle /\ ClIdle /\ FfIdle /\ GnIdle /\ AsIdle

FrApply(step, entries, event) ==
    /\ fr_pc' = step.pc
    /\ fr_ret' = step.ret
    /\ fr_feed' = entries
    /\ fr_log' = Append(fr_log, event)
    /\ UNCHANGED fr_retry
    /\ UNCHANGED <<qsVars, clVars, ffVars, gnVars, asVars>>

\* The attempt raises (feedparser.parse, or anything else in the try).
AttemptRaises ==
    /\ fr_pc = "attempt"
    /\ FrApply(ExceptStep(fr_retry), fr_feed, "raise")

\* The feed parsed has no entries.
AttemptZeroEntries ==
    /\ fr_pc = "attempt"
    /\ FrApply(ZeroEntriesStep(fr_retry), <<>>, "zero")

\* The feed parsed has entries.
AttemptEntries ==
    /\ fr_pc = "attempt"
    /\ \E entries \in FrFeeds :
           FrApply([pc |-> "returned", ret |-> Some(ProcessEntries(entries))],
                   entries, "entries")

\* time.sleep(1), then the next iteration of the retry loop.
Backoff ==
    /\ fr_pc = "sleep"
    /\ fr_pc' = LoopStep(fr_retry).pc
    /\ fr_retry' = LoopStep(fr_retry).retry
    /\ fr_ret' = LoopStep(fr_retry).ret
    /\ fr_log' = Append(fr_log, "sleep")
    /\ UNCHANGED fr_feed
    /\ UNCHANGED <<qsVars, clVars, ffVars, gnVars, asVars>>

NextFetch == AttemptRaises \/ AttemptZeroEntries \/ AttemptEntries \/ Backoff

SpecFetch == InitFetch /\ [][NextFetch]_vars

FrAttempts == {i \in 1..Len(fr_log) : fr_log[i] # "sleep"}

FrSleeps == {i \in 1..Len(fr_log) : fr_log[i] = "sleep"}

\* The number of the attempt logged at position i.
FrAttemptNo(i) == Cardinality({j \in FrAttempts : j <= i})

\* A list: what fetch_rss_feed is to return (None is not a list).
IsList(ret) == ret.tag = "Some"

\* C4: with the default bound of 3 attempts, fetch_rss_feed always returns a
\* list, possibly empty, and no exception escapes it, whatever each attempt
\* does: the call is in its retry loop or has returned a list, the list
\* holds the articles of the feed's good entries, and the call takes at
\* most 3 attempts and 2 sleeps to return.
C4_AlwaysList ==
    /\ fr_pc \in {"attempt", "sleep", "returned"}
    /\ Len(fr_log) <= 2 * MaxRetries - 1
    /\ (fr_pc = "returned" =>
            /\ IsList(fr_ret)
            /\ Len(fr_ret.val) <= Len(fr_feed)
            /\ \A a \in Range(fr_ret.val) : a.title \in Range(fr_feed) \ {BadEntry})

\* The call returned after three attempts that all raised.
C4_Witness ==
    /\ fr_pc = "returned"
    /\ Cardinality(FrAttempts) = 3
    /\ fr_log[Len(fr_log)] = "raise"
    /\ fr_ret = Some(<<>>)

\* C5: the feed is attempted at most 3 times; an attempt that raises is
\* followed by exactly one backoff sleep and then a new attempt if and only
\* if it was not the 3rd attempt; after the 3rd failed attempt the call
\* returns [] without sleeping again, so a call sleeps at most twice.
C5_BoundedRetry ==
    /\ Cardinality(FrAttempts) <= 3
    /\ Cardinality(FrSleeps) <= 2
    /\ \A i \in 1..Len(fr_log) :
           /\ fr_log[i] = "raise" /\ FrAttemptNo(i) < 3 =>
                  /\ (i = Len(fr_log) => fr_pc = "sleep")
                  /\ (i < Len(fr_log) => fr_log[i + 1] = "sleep")
                  /\ (i + 1 = Len(fr_log) => fr_pc = "attempt")
                  /\ (i + 1 < Len(fr_log) => fr_log[i + 2] # "sleep")
           /\ fr_log[i] = "raise" /\ FrAttemptNo(i) = 3 =>
                  i = Len(fr_log) /\ fr_pc = "returned" /\ fr_ret = Some(<<>>)
           /\ fr_log[i] = "sleep" => i > 1 /\ fr_log[i - 1] = "raise"

\* Two failed attempts, two sleeps, and a third attempt that failed too.
C5_Witness ==
    /\ fr_pc = "returned"
    /\ fr_log = <<"raise", "sleep", "raise", "sleep", "raise">>

\* C6: when an attempt obtains a feed with zero entries, the call returns []
\* at once, with no further attempt and no sleep, on whichever attempt.
C6_ZeroEntriesReturns ==
    \A i \in 1..Len(fr_log) :
        fr_log[i] = "zero" =>
            i = Len(fr_log) /\ fr_pc = "returned" /\ fr_ret = Some(<<>>)

\* A feed without entries on the 2nd attempt.
C6_Witness ==
    /\ fr_pc = "returned"
    /\ fr_log = <<"raise", "sleep", "zero">>


(***************************************************************************)
(* SpecFeeds: one call of fetch_all_feeds.  Every feed task runs           *)
(* fetch_rss_feed in a worker thread; as_completed yields the futures in   *)
(* the order in which the tasks finish.  What a task's future holds is     *)
(* fixed per behaviour: a list of articles, or an exception.               *)
(***************************************************************************)
NumFeeds == 3

FfTitleLists == {<<>>, <<"t1">>, <<"t2">>, <<"t1", "t2">>, <<"t1", "t1">>}

FfOutcomes(f) ==
    {[raises |-> TRUE, articles |-> <<>>]}
        \cup {[raises |-> FALSE,
               articles |-> [i \in 1..Len(ts) |-> [title |-> ts[i], source |-> f]]]
              : ts \in FfTitleLists}

InitFeeds ==
    /\ ff_pc = "collect"
    /\ ff_outcome \in [1..NumFeeds -> UNION {FfOutcomes(f) : f \in 1..NumFeeds}]
    /\ \A f \in 1..NumFeeds : ff_outcome[f] \in FfOutcomes(f)
    /\ ff_task = [f \in 1..NumFeeds |-> "running"]
    /\ ff_collected = <<>>
    /\ ff_all = <<>>
    /\ ff_ret = NoValue
    /\ QsIdle /\ ClIdle /\ FrIdle /\ GnIdle /\ AsIdle

\* The worker thread of feed f ends: its future is done.
TaskFinishes(f) ==
    /\ ff_pc = "collect"
    /\ ff_task[f] = "running"
    /\ ff_task' = [ff_task EXCEPT ![f] = "done"]
    /\ UNCHANGED <<ff_pc, ff_outcome, ff_collected, ff_all, ff_ret>>
    /\ UNCHANGED <<qsVars, clVars, frVars, gnVars, asVars>>

\* as_completed yields the future of feed f; the loop body handles it.
Collect(f) ==
    /\ ff_pc = "collect"
    /\ ff_task[f] = "done"
    /\ f \notin Range(ff_collected)
    /\ ff_pc' = CollectStep(ff_all, ff_outcome[f]).pc
    /\ ff_all' = CollectStep(ff_all, ff_outcome[f]).all
    /\ ff_collected' = Append(ff_collected, f)
    /\ UNCHANGED <<ff_outcome, ff_task, ff_ret>>
    /\ UNCHANGED <<qsVars, clVars, frVars, gnVars, asVars>>

\* A loop that stops at the first future that completed.
FirstCompleted(collected) == Len(collected) >= 1

\* The loop over as_completed(future_to_url) has ended and the with block
\* is left (index.py 1156-1167): every future submitted at index.py 1158,
\* one per feed URL, has been yielded, and shutdown(wait=True) has returned.
AllCompleted(collected) == Len(collected) = NumFeeds

\* as_completed is exhausted: the executor is shut down, the articles are
\* deduplicated and returned.
ReturnUnique ==
    /\ ff_pc = "collect"
    /\ AllCompleted(ff_collected)
    /\ ff_ret' = Some(UniqueByTitle(ff_all))
    /\ ff_pc' = "returned"
    /\ UNCHANGED <<ff_outcome, ff_task, ff_collected, ff_all>>
    /\ UNCHANGED <<qsVars, clVars, frVars, gnVars, asVars>>

NextFeeds ==
    \/ \E f \in 1..NumFeeds : TaskFinishes(f)
    \/ \E f \in 1..NumFeeds : Collect(f)
    \/ ReturnUnique

SpecFeeds == InitFeeds /\ [][NextFeeds]_vars

\* The articles the feeds returned (a task that raised returned none).
FfReturnedByFeeds ==
    UNION {Range(ff_outcome[f].articles) : f \in {g \in 1..NumFeeds : ~ff_outcome[g].raises}}

\* C7: fetch_all_feeds does not fail because feeds fail: whichever tasks
\* return [] or raise, the call returns normally, its result holds an
\* article for every title a non-failing feed returned, and a raising task
\* contributes nothing.
C7_PartialFailure ==
    /\ ff_pc \in {"collect", "returned"}
    /\ (ff_pc = "returned" =>
            /\ ff_ret.tag = "Some"
            /\ \A a \in FfReturnedByFeeds :
                   \E i \in 1..Len(ff_ret.val) : ff_ret.val[i].title = a.title
            /\ \A i \in 1..Len(ff_ret.val) : ~ff_outcome[ff_ret.val[i].source].raises)

\* One task raised, one returned [], one returned articles.
C7_Witness ==
    /\ ff_pc = "returned"
    /\ \E f, g, h \in 1..NumFeeds :
           /\ ff_outcome[f].raises
           /\ ~ff_outcome[g].raises /\ ff_outcome[g].articles = <<>>
           /\ ~ff_outcome[h].raises /\ Len(ff_outcome[h].articles) = 2
    /\ Len(ff_ret.val) = 2

\* C8: for every completion order, the list returned holds no two articles
\* with the same title, and for each title some feed returned it holds
\* exactly one article with that title, one of those the feeds returned.
C8_UniqueTitles ==
    ff_pc = "returned" =>
        /\ \A i, j \in 1..Len(ff_ret.val) :
               i # j => ff_ret.val[i].title # ff_ret.val[j].title
        /\ \A a \in FfReturnedByFeeds :
               Cardinality({i \in 1..Len(ff_ret.val) : ff_ret.val[i].title = a.title}) = 1
        /\ Range(ff_ret.val) \subseteq FfReturnedByFeeds

\* Two feeds returned the same title; the copy of the feed that completed
\* second of the two is the one that was dropped.
C8_Witness ==
    /\ ff_pc = "returned"
    /\ \E i, j \in 1..NumFeeds :
           /\ i < j
           /\ ff_outcome[ff_collected[i]].articles = <<[title |-> "t1", source |-> ff_collected[i]]>>
           /\ ff_outcome[ff_collected[j]].articles = <<[title |-> "t1", source |-> ff_collected[j]]>>
           /\ ff_collected[i] > ff_collected[j]
           /\ [title |-> "t1", source |-> ff_collected[i]] \in Range(ff_ret.val)
           /\ [title |-> "t1", source |-> ff_collected[j]] \notin Range(ff_ret.val)


(***************************************************************************)
(* SpecNews: requests to get_news.  A request runs without interruption    *)
(* up to its await of fetch_news_api (determine_category_for_query and     *)
(* fetch_all_feeds block the event loop); while it waits there, other      *)
(* requests run and the clock advances.  The steps after the cache lookup  *)
(* or store (index.py 1310-1406: source filter, scoring, clustering,       *)
(* pagination) read the list `articles`; they change neither the keys, the *)
(* timestamps nor the titles held in NEWS_CACHE.  When a request ends, its *)
(* slot is free again and `last` keeps what the request did.               *)
(***************************************************************************)
NumSlots == 2

MaxRequests == 2

MaxTicks == 2

TickSteps == {899, 900}

Languages == {"en", "xx"}

RequestCategories == {NoCategory, "Tech", "Bogus"}

Queries == {"", "q"}

OracleAnswers == {NoCategory, "Tech"}

\* request.page, where the response shows it.
Pages == {1, 2}

\* An article of a feed.  q is the search string the article was selected
\* by: feeds are not searched.
GnArticle(title, source) == [title |-> title, source |-> source, q |-> ""]

\* An article of fetch_news_api called with the query: for a query the URL
\* is everything?q=<query ...> (index.py 1086-1093), without one it is
\* top-headlines, which has no search string (index.py 1095).
ApiArticle(title, query) == [title |-> title, source |-> "api", q |-> query]

\* What the feed tasks of one fetch_all_feeds call return together, before
\* deduplication: nothing, one article, the same title from two feeds, or
\* as many titles as the fallback threshold.
RawFeedLists(threshold) ==
    {<<>>,
     <<GnArticle(1, "feedA")>>,
     <<GnArticle(1, "feedA"), GnArticle(1, "feedB")>>,
     [i \in 1..threshold |-> GnArticle(i, "feedA")]}

\* What fetch_news_api returns for the query: nothing, a title the feeds
\* have too, or another one.
NewsApiLists(query) == {<<>>, <<ApiArticle(1, query)>>, <<ApiArticle(2, query)>>}

IdleReq ==
    [pc |-> "idle", id |-> 0, language |-> "", query |-> "", category |-> NoCategory,
     cache_key |-> <<>>, current_time |-> 0, articles |-> <<>>,
     looked |-> FALSE, found |-> FALSE, found_ts |-> 0, hit |-> FALSE,
     fetches |-> 0, fallbacks |-> 0, stored |-> FALSE, response |-> "",
     feed_language |-> "", reply |-> NoValue]

InitNews ==
    /\ now = 0
    /\ ticks = 0
    /\ started = 0
    /\ NEWS_CACHE = <<>>
    /\ req = [r \in 1..NumSlots |-> IdleReq]
    /\ last = IdleReq
    /\ put = <<>>
    /\ QsIdle /\ ClIdle /\ FrIdle /\ FfIdle /\ AsIdle

\* The record of the stores: the assignment NEWS_CACHE[cache_key] = {...}
\* (index.py 1276, 1305) has just run at the time `now` and has written
\* the timestamp; stamps are the timestamps written under the key so far.
Stored(p, cache_key, timestamp) ==
    [k \in DOMAIN p \cup {cache_key} |->
        IF k = cache_key
        THEN [at |-> now,
              count |-> IF k \in DOMAIN p THEN p[k].count + 1 ELSE 1,
              stamps |-> IF k \in DOMAIN p THEN p[k].stamps \cup {timestamp}
                                            ELSE {timestamp}]
        ELSE p[k]]

\* time passes.
Tick ==
    /\ ticks < MaxTicks
    /\ \E d \in TickSteps : now' = now + d
    /\ ticks' = ticks + 1
    /\ UNCHANGED <<started, NEWS_CACHE, req, last, put>>
    /\ UNCHANGED <<qsVars, clVars, frVars, ffVars, asVars>>

\* A new request takes the first slot that holds no request in progress.
FreeSlot(r) ==
    /\ req[r].pc = "idle"
    /\ \A q \in 1..(r - 1) : req[q].pc = "await_fallback"

\* The locals of a request after index.py 1214-1223 and, when it gets
\* there, the cache lookup.
Arrived(language, query, category, oracle) ==
    LET cat == ResolveCategory(category, query, oracle)
        cache_key == CacheKey(language, cat)
        known == cat = NoCategory \/ cat \in DOMAIN RSS_FEEDS
        present == known /\ cache_key \in DOMAIN NEWS_CACHE
    IN  [IdleReq EXCEPT
            !.id = started + 1,
            !.language = language, !.query = query, !.category = cat,
            !.cache_key = IF known THEN cache_key ELSE <<>>,
            !.current_time = IF known THEN now ELSE 0,
            !.looked = known,
            !.found = present,
            !.found_ts = IF present THEN NEWS_CACHE[cache_key].timestamp ELSE 0]

\* index.py 1228-1237: the category is not in RSS_FEEDS.
StartCategoryNotFound(r) ==
    \E language \in Languages, query \in Queries, category \in RequestCategories,
       oracle \in OracleAnswers, page \in Pages :
        LET a == Arrived(language, query, category, oracle)
        IN  /\ FreeSlot(r) /\ started < MaxRequests
            /\ a.category # NoCategory /\ a.category \notin DOMAIN RSS_FEEDS
            /\ last' = [a EXCEPT !.pc = "done", !.response = "category_not_found",
                                  !.reply = CategoryNotFoundResponse(a.category, page)]
            /\ started' = started + 1
            /\ UNCHANGED <<now, ticks, NEWS_CACHE, req, put>>
            /\ UNCHANGED <<qsVars, clVars, frVars, ffVars, asVars>>

\* index.py 1243-1245 and 1285-1287: the entry is live, its list is used.
StartCacheHit(r) ==
    \E language \in Languages, query \in Queries, category \in RequestCategories,
       oracle \in OracleAnswers :
        LET a == Arrived(language, query, category, oracle)
        IN  /\ FreeSlot(r) /\ started < MaxRequests
            /\ a.looked
            /\ CacheLive(NEWS_CACHE, a.cache_key, now)
            /\ last' = [a EXCEPT !.pc = "done", !.hit = TRUE,
                                  !.articles = NEWS_CACHE[a.cache_key].articles,
                                  !.response = "assembled"]
            /\ started' = started + 1
            /\ UNCHANGED <<now, ticks, NEWS_CACHE, req, put>>
            /\ UNCHANGED <<qsVars, clVars, frVars, ffVars, asVars>>

\* index.py 1246-1279 and 1288-1308 with a fetch that yields fewer articles
\* than the threshold: the request awaits fetch_news_api.
StartFetchFew(r) ==
    \E language \in Languages, query \in Queries, category \in RequestCategories,
       oracle \in OracleAnswers :
        LET a == Arrived(language, query, category, oracle)
        IN  /\ FreeSlot(r) /\ started < MaxRequests
            /\ a.looked
            /\ ~CacheLive(NEWS_CACHE, a.cache_key, now)
            /\ FeedLanguage(language, a.category) # ""
            /\ \E raw \in RawFeedLists(FallbackThreshold(a.category)) :
                   /\ Len(UniqueByTitle(raw)) < FallbackThreshold(a.category)
                   /\ req' = [req EXCEPT ![r] =
                                 [a EXCEPT !.pc = "await_fallback", !.fetches = 1,
                                           !.fallbacks = 1,
                                           !.feed_language =
                                               FeedLanguage(language, a.category),
                                           !.articles = UniqueByTitle(raw)]]
            /\ started' = started + 1
            /\ UNCHANGED <<now, ticks, NEWS_CACHE, last, put>>
            /\ UNCHANGED <<qsVars, clVars, frVars, ffVars, asVars>>

\* The same with a fetch that reaches the threshold: the list is stored at
\* once.
StartFetchEnough(r) ==
    \E language \in Languages, query \in Queries, category \in RequestCategories,
       oracle \in OracleAnswers :
        LET a == Arrived(language, query, category, oracle)
        IN  /\ FreeSlot(r) /\ started < MaxRequests
            /\ a.looked
            /\ ~CacheLive(NEWS_CACHE, a.cache_key, now)
            /\ FeedLanguage(language, a.category) # ""
            /\ \E raw \in RawFeedLists(FallbackThreshold(a.category)) :
                   /\ Len(UniqueByTitle(raw)) >= FallbackThreshold(a.category)
                   /\ last' = [a EXCEPT !.pc = "done", !.fetches = 1,
                                         !.stored = TRUE,
                                         !.feed_language =
                                             FeedLanguage(language, a.category),
                                         !.articles = UniqueByTitle(raw),
                                         !.response = "assembled"]
                   /\ NEWS_CACHE' = CacheStore(NEWS_CACHE, a.cache_key, now,
                                               UniqueByTitle(raw))
                   /\ put' = Stored(put, a.cache_key, now)
            /\ started' = started + 1
            /\ UNCHANGED <<now, ticks, req>>
            /\ UNCHANGED <<qsVars, clVars, frVars, ffVars, asVars>>

\* fetch_news_api returns: index.py 1272-1279 and 1301-1308.
FallbackReturns(r) ==
    /\ req[r].pc = "await_fallback"
    /\ \E news_api_articles \in NewsApiLists(req[r].query) :
           LET articles == ExtendWithFallback(req[r].articles, news_api_articles)
           IN  /\ last' = [req[r] EXCEPT !.pc = "done", !.stored = TRUE,
                                          !.articles = articles,
                                          !.response = "assembled"]
               /\ req' = [req EXCEPT ![r] = IdleReq]
               /\ NEWS_CACHE' = CacheStore(NEWS_CACHE, req[r].cache_key,
                                           req[r].current_time, articles)
               /\ put' = Stored(put, req[r].cache_key, req[r].current_time)
    /\ UNCHANGED <<now, ticks, started>>
    /\ UNCHANGED <<qsVars, clVars, frVars, ffVars, asVars>>

NextNews ==
    \/ Tick
    \/ \E r \in 1..NumSlots : StartCategoryNotFound(r)
    \/ \E r \in 1..NumSlots : StartCacheHit(r)
    \/ \E r \in 1..NumSlots : StartFetchFew(r)
    \/ \E r \in 1..NumSlots : StartFetchEnough(r)
    \/ \E r \in 1..NumSlots : FallbackReturns(r)

SpecNews == InitNews /\ [][NextNews]_vars

NoTwoWithOneTitle(articles) ==
    \A i, j \in 1..Len(articles) : i # j => articles[i].title # articles[j].title

\* C9: when the fallback source is queried, its results are appended subject
\* to the title-based deduplication: the list stored in the cache and used
\* for the response holds no two articles with the same title.
C9_CacheTitlesUnique ==
    /\ \A k \in DOMAIN NEWS_CACHE : NoTwoWithOneTitle(NEWS_CACHE[k].articles)
    /\ (last.response = "assembled" => NoTwoWithOneTitle(last.articles))

\* The request whose locals are q looked its key up, found an entry and
\* the entry was younger than 1800 seconds.
FoundLive(q) == q.looked /\ q.found /\ q.current_time - q.found_ts < 1800

C10_Served ==
    /\ last.pc = "done" =>
           /\ last.hit <=> FoundLive(last)
           /\ last.hit => last.fetches = 0 /\ last.fallbacks = 0 /\ ~last.stored
           /\ last.looked /\ ~last.hit => last.fetches = 1
    /\ \A r \in 1..NumSlots :
           req[r].pc = "await_fallback" =>
               ~req[r].hit /\ ~FoundLive(req[r]) /\ req[r].fetches = 1

\* An entry leaves the store never, and changes only by a store under its
\* own key.
C10_Kept ==
    \A k \in DOMAIN NEWS_CACHE :
        /\ k \in DOMAIN NEWS_CACHE'
        /\ NEWS_CACHE'[k] # NEWS_CACHE[k] =>
               /\ last'.stored /\ last'.cache_key = k
               /\ NEWS_CACHE'[k] = [timestamp |-> last'.current_time,
                                    articles |-> last'.articles]

\* C10: a request is served from the cache, with no feed fetch and no
\* fallback call, if and only if an entry for its key exists and
\* now - timestamp < 1800 (at 1800 exactly it is a miss); an expired entry
\* is never removed: it stays until a store under the same key overwrites it.
C10_HitIffLive == []C10_Served /\ [][C10_Kept]_vars

\* A request found an entry of the age of exactly 1800 seconds, did not use
\* it and fetched; the expired entry is still in the store.
C10_Witness ==
    \E r \in 1..NumSlots :
        /\ req[r].pc = "await_fallback"
        /\ req[r].found
        /\ req[r].current_time - req[r].found_ts = 1800
        /\ req[r].fetches = 1
        /\ req[r].cache_key \in DOMAIN NEWS_CACHE
        /\ NEWS_CACHE[req[r].cache_key].timestamp = req[r].found_ts

\* C11: a lookup for a key made immediately after an entry was stored under
\* it (the clock has not moved since the store) is a hit and yields exactly
\* the list stored, however long the fetch that produced the entry took; a
\* lookup made 1800 seconds or more after the store is a miss.
C11_FreshEntryLive ==
    /\ \A k \in DOMAIN NEWS_CACHE :
           /\ now = put[k].at => CacheLive(NEWS_CACHE, k, now)
           /\ now - put[k].at >= 1800 => ~CacheLive(NEWS_CACHE, k, now)
    /\ (last.stored /\ now = put[last.cache_key].at) =>
           NEWS_CACHE[last.cache_key].articles = last.articles

\* C12 (state part): the entry under the key of the request that stored
\* last is the timestamp and the list of that one request.
C12_LastWriteWins ==
    last.stored =>
        /\ last.cache_key \in DOMAIN NEWS_CACHE
        /\ NEWS_CACHE[last.cache_key] =
               [timestamp |-> last.current_time, articles |-> last.articles]

\* C12 (step part): an entry that appears or changes in a step is the one
\* under the key of the request that ends in this step, and it is that
\* request's timestamp together with that request's list; every entry under
\* another key stays as it is.
C12_OneWriter ==
    \A k \in DOMAIN NEWS_CACHE' :
        (k \notin DOMAIN NEWS_CACHE \/ NEWS_CACHE'[k] # NEWS_CACHE[k]) =>
            /\ last'.stored /\ last'.cache_key = k
            /\ NEWS_CACHE'[k] = [timestamp |-> last'.current_time,
                                 articles |-> last'.articles]
            /\ \A j \in DOMAIN NEWS_CACHE : j # k => NEWS_CACHE'[j] = NEWS_CACHE[j]

\* C12: under every interleaving of concurrent requests each cache entry
\* is a timestamp and an article list written together by one request
\* (last write wins), and a store to one key never changes the entry of
\* another key.
C12_EntriesWhole == []C12_LastWriteWins /\ [][C12_OneWriter]_vars

\* Two requests for one key were in progress together: the one that ended
\* last found no entry when it looked, and has stored over the entry that
\* the other one stored while it waited for the fallback source.
C12_Witness ==
    /\ last.stored /\ ~last.found
    /\ put[last.cache_key].count = 2
    /\ put[last.cache_key].at > last.current_time

\* The request whose locals are q asked for a language that has no feeds
\* for its category (among the general feeds when it has no category).
Unsupported(q) == q.looked /\ ~LanguageHasFeeds(q.language, q.category)

\* C19 as stated: a request whose language has no feeds is answered with a
\* not-found response naming the language, and not with articles of another
\* language.
C19_UnsupportedLanguageRefused ==
    (last.pc = "done" /\ Unsupported(last)) =>
        /\ last.response = "language_not_available"
        /\ last.articles = <<>>
        /\ last.fetches = 0

\* C19 as amended: a request whose language has no feeds is not refused.
\* When it misses the cache it is answered with the articles of the English
\* feeds of its category (of the general feeds without a category), and
\* these are stored under the key of the requested language; when it hits,
\* it is answered with the entry of that key.
C19_EnglishFallback ==
    /\ (last.pc = "done" /\ Unsupported(last)) =>
           /\ last.response = "assembled"
           /\ last.cache_key[1] = last.language
           /\ IF last.hit
              THEN last.fetches = 0 /\ last.feed_language = ""
              ELSE last.fetches = 1 /\ last.feed_language = "en" /\ last.stored
    /\ \A r \in 1..NumSlots :
           (req[r].pc = "await_fallback" /\ Unsupported(req[r])) =>
               req[r].feed_language = "en"

\* A request in a language without feeds for "Tech" has fetched the English
\* feeds, and their articles are in the store under the key of its language.
C19_Witness ==
    /\ last.pc = "done" /\ last.language = "xx" /\ last.category = "Tech"
    /\ last.feed_language = "en" /\ last.stored
    /\ last.articles # <<>>
    /\ NEWS_CACHE[<<"xx", "Tech">>].articles = last.articles

\* C20 (state part): the response to a request with a category that the
\* feed table does not have.
C20_Reply ==
    (last.pc = "done" /\ last.category # NoCategory
                      /\ last.category \notin DOMAIN RSS_FEEDS) =>
        /\ last.response = "category_not_found"
        /\ last.reply.articles = <<>>
        /\ last.reply.total_found = 0
        /\ last.reply.total_pages = 0
        /\ last.reply.message.names = last.category
        /\ last.reply.available_categories = DOMAIN RSS_FEEDS
        /\ ~last.looked /\ last.fetches = 0 /\ last.fallbacks = 0 /\ ~last.stored

\* C20 (step part): the step that answers such a request leaves the store
\* and the requests in progress as they are.
C20_NoEffect ==
    (started' = started + 1 /\ last'.id = started'
                            /\ last'.response = "category_not_found") =>
        /\ NEWS_CACHE' = NEWS_CACHE
        /\ put' = put
        /\ req' = req

\* C20: a request with an explicit category that is not in the feed table
\* gets a not-found response (no articles, total_found = 0, total_pages = 0,
\* a message naming the category, the available categories), with no feed
\* fetch, no call of the fallback source and no change of the cache.
C20_CategoryNotFound == []C20_Reply /\ [][C20_NoEffect]_vars

\* Such a request has been answered while the store holds an entry.
C20_Witness ==
    /\ last.pc = "done" /\ last.category = "Bogus"
    /\ last.response = "category_not_found"
    /\ DOMAIN NEWS_CACHE # {}

(***************************************************************************)
(* SpecAssemble: get_news from the list `articles` that the cache or the   *)
(* fetch gave (index.py 1245, 1268-1273, 1287, 1292-1302) to the response  *)
(* (index.py 1310-1409), on every request and list of the sets below.      *)
(* These steps run without an await.  The list is the one of a cache       *)
(* entry: the request that stored it and the requests that find the entry  *)
(* live (index.py 1245, 1287) all work on it, one after the other.         *)
(***************************************************************************)
\* An article as fetch_rss_feed and fetch_news_api build it: no relevance.
\* words is re.findall(r'\w+', f"{title} {summary}".lower()).
AsArticle(id, title, summary, source, published_date, days) ==
    [id |-> id, title |-> title, summary |-> summary, words |-> title \o summary,
     source |-> source, published_date |-> published_date, days |-> days,
     relevance |-> NoRelevance]

BBC == <<"B", "B", "C">>

Cnn == <<"c", "n", "n">>

\* Three articles of three sources; the second and third match the query
\* <<5>>, the first is the newest.
FewArticles ==
    <<AsArticle(1, <<1, 2>>, <<3, 4>>, BBC, 30, 0),
      AsArticle(2, <<5, 6>>, <<>>, Cnn, 10, 20),
      AsArticle(3, <<7>>, <<5, 6, 8>>, <<"A", "b", "N">>, 20, NoDate)>>

\* 23 articles of one source, in no order of date, each with the word 5 and
\* a word of its own.
ManyArticles ==
    [i \in 1..23 |-> AsArticle(i, <<5>>, <<200 + i>>, BBC, (i * 7) % 23, 1)]

\* 11 articles with the word 5 in the title: article i of the first nine
\* has i different words, the last two have the same ten words.
ElevenArticles ==
    [i \in 1..11 |->
        AsArticle(i, <<5>>,
                  [j \in 1..(Min(i, 10) - 1) |-> 10 * Min(i, 10) + j],
                  Cnn, 11 - i, 0)]

AsArticleLists == {<<>>, FewArticles, ManyArticles, ElevenArticles}

\* request.query as words: none, a word of some articles, "vs csk", a
\* word of no article.
AsQueries == {<<>>, <<5>>, <<1, 2>>, <<9>>}

AsPages == {-1, 0, 1, 2, 3, 4}

AsPageSizes == {0, 1, 2, 10}

\* request.preferred_sources.
AsPreferred ==
    {<<>>, <<<<"b", "b", "c">>>>, <<<<"x">>>>, <<<<"x">>, <<"N">>>>, <<<<>>>>}

\* The requests served from one cache entry.
MaxServed == 2

\* The locals of a request that got the list `articles` from the entry.
AsRequests(articles) ==
    [articles : {articles}, query : AsQueries, page : AsPages,
     page_size : AsPageSizes, preferred_sources : AsPreferred]

InitAssemble ==
    /\ as_pc = "filter"
    /\ as_stored \in AsArticleLists
    /\ as_cache = as_stored
    /\ as_served = 1
    /\ as_in \in AsRequests(as_stored)
    /\ as_articles = <<>>
    /\ as_sources = <<>>
    /\ as_rank = NoValue
    /\ as_ret = NoValue
    /\ QsIdle /\ ClIdle /\ FrIdle /\ FfIdle /\ GnIdle

\* index.py 1310-1333.
AsFilter ==
    /\ as_pc = "filter"
    /\ LET available_sources == AvailableSources(as_in.articles, {})
           articles == FilterBySource(as_in.articles, as_in.preferred_sources)
       IN  /\ as_sources' = available_sources
           /\ as_articles' = articles
           /\ IF as_in.preferred_sources # <<>> /\ articles = <<>>
              THEN /\ as_ret' = EmptyResponse("no_preferred_sources", as_in.page,
                                              available_sources)
                   /\ as_pc' = "done"
              ELSE /\ as_ret' = as_ret
                   /\ as_pc' = "rank"
    /\ UNCHANGED <<as_in, as_rank, as_cache, as_stored, as_served>>
    /\ UNCHANGED <<qsVars, clVars, frVars, ffVars, gnVars>>

\* index.py 1337-1383; an exception leaves through index.py 1408-1409.
AsRank ==
    /\ as_pc = "rank"
    /\ LET ranked == Rank(as_articles, as_in.query)
       IN  /\ as_rank' = ranked
           /\ IF ranked.raised # ""
              THEN as_ret' = InternalError /\ as_pc' = "done"
              ELSE IF ranked.filtered_articles = <<>>
                   THEN /\ as_ret' = EmptyResponse("no_articles", as_in.page, as_sources)
                        /\ as_pc' = "done"
                   ELSE as_ret' = as_ret /\ as_pc' = "paginate"
    /\ UNCHANGED <<as_in, as_articles, as_sources, as_cache, as_stored, as_served>>
    /\ UNCHANGED <<qsVars, clVars, frVars, ffVars, gnVars>>

\* index.py 1385-1406; page_size 0 raises ZeroDivisionError at index.py 1386.
AsPaginate ==
    /\ as_pc = "paginate"
    /\ as_ret' =
           IF as_in.page_size = 0
           THEN InternalError
           ELSE NewsResponse(
                    WithDefaultRelevance(PageOf(as_rank.filtered_articles,
                                                as_rank.total_matches,
                                                as_in.page, as_in.page_size)),
                    as_rank.text, as_rank.total_matches,
                    TotalPages(as_rank.total_matches, as_in.page_size),
                    as_in.page, as_sources)
    /\ as_cache' =
           IF as_in.page_size = 0
           THEN as_cache
           ELSE CacheAfterPage(as_cache,
                               PageOf(as_rank.filtered_articles,
                                      as_rank.total_matches,
                                      as_in.page, as_in.page_size))
    /\ as_pc' = "done"
    /\ UNCHANGED <<as_in, as_articles, as_sources, as_rank, as_stored, as_served>>
    /\ UNCHANGED <<qsVars, clVars, frVars, ffVars, gnVars>>

\* The next request finds the entry live: index.py 1243-1245, 1285-1287.
AsNextRequest ==
    /\ as_pc = "done"
    /\ as_served < MaxServed
    /\ as_served' = as_served + 1
    /\ as_in' \in AsRequests(as_cache)
    /\ as_pc' = "filter"
    /\ as_articles' = <<>>
    /\ as_sources' = <<>>
    /\ as_rank' = NoValue
    /\ as_ret' = NoValue
    /\ UNCHANGED <<as_cache, as_stored>>
    /\ UNCHANGED <<qsVars, clVars, frVars, ffVars, gnVars>>

NextAssemble == AsFilter \/ AsRank \/ AsPaginate \/ AsNextRequest

SpecAssemble == InitAssemble /\ [][NextAssemble]_vars

\* The request has a response with articles, counts and pages.
Answered == as_pc = "done" /\ as_ret.status = 200

\* C13: for every article and every non-empty query the relevance score
\* (the sum of the exact-match bonus 0.5, 0.3 x term ratio, 0.4 x title
\* ratio, a sports boost of at most 0.2 and a recency bonus of at most 0.1,
\* clamped at 1.0) lies between 0.0 and 1.0.
C13_ScoreBounded ==
    as_in.query # <<>> =>
        /\ \A i \in 1..Len(as_in.articles) :
               LET a == as_in.articles[i]
               IN  /\ relevance_score(a, as_in.query) \in 0..ScoreScale
                   /\ SportsBoost(a, as_in.query) \in 0..(2 * (ScoreScale \div 10))
                   /\ RecencyBonus(a) \in 0..(ScoreScale \div 10)
        /\ (as_rank # NoValue /\ as_rank.text = "found") =>
               \A i \in 1..Len(as_rank.filtered_articles) :
                   as_rank.filtered_articles[i].relevance \in 0..ScoreScale
        /\ (Answered /\ as_ret.message = "found") =>
               \A i \in 1..Len(as_ret.articles) :
                   as_ret.articles[i].relevance \in 0..ScoreScale

\* An article whose five terms add up to more than 1.0 is in a response
\* with the score 1.0.
C13_Witness ==
    /\ Answered /\ as_in.query # <<>>
    /\ \E i \in 1..Len(as_ret.articles) :
           /\ as_ret.articles[i].relevance = ScoreScale
           /\ \E j \in 1..Len(as_in.articles) :
                  /\ as_in.articles[j].id = as_ret.articles[i].id
                  /\ RawScore(as_in.articles[j], as_in.query) > ScoreScale

\* How often x occurs in the sequence s.
Count(s, x) == Cardinality({i \in 1..Len(s) : s[i] = x})

\* C14: with an empty query, scoring, clustering and the choice of
\* representatives are skipped: the result list is the source-filtered
\* articles ordered by published date, newest first (none scored, none
\* removed), and total_found is the number of source-filtered articles.
C14_EmptyQueryByDate ==
    (as_in.query = <<>> /\ as_rank # NoValue) =>
        LET result == as_rank.filtered_articles
        IN  /\ as_rank.raised = ""
            /\ Len(result) = Len(as_articles)
            /\ \A i \in 1..Len(as_articles) :
                   Count(result, as_articles[i]) = Count(as_articles, as_articles[i])
            /\ \A i \in 1..(Len(result) - 1) :
                   result[i].published_date >= result[i + 1].published_date
            /\ as_rank.total_matches = Len(as_articles)
            /\ Answered => as_ret.total_found = Len(as_articles)

\* A request without a query for three articles that are not in the order
\* of their dates has its response: the newest is first.
C14_Witness ==
    /\ Answered /\ as_in.query = <<>> /\ as_in.articles = FewArticles
    /\ as_in.preferred_sources = <<>> /\ as_in.page = 1 /\ as_in.page_size = 10
    /\ as_ret.total_found = 3
    /\ [i \in 1..3 |-> as_ret.articles[i].id] = <<1, 3, 2>>

\* C15: in a response that is not the empty-result response, with
\* page_size >= 1, total_pages is ceil(total_found / page_size) and the
\* page holds at most page_size articles.
C15_PageCount ==
    (Answered /\ as_ret.total_found > 0 /\ as_in.page_size >= 1) =>
        /\ as_ret.total_pages * as_in.page_size >= as_ret.total_found
        /\ (as_ret.total_pages - 1) * as_in.page_size < as_ret.total_found
        /\ Len(as_ret.articles) <= as_in.page_size

\* 23 matches, page_size 10, page 3: three pages, the third with 3 articles.
C15_Witness ==
    /\ Answered /\ as_in.page_size = 10 /\ as_in.page = 3
    /\ as_ret.total_found = 23 /\ as_ret.total_pages = 3
    /\ Len(as_ret.articles) = 3

\* C16: total_found counts exactly the articles the pages deliver: page p
\* of 1..total_pages holds min(page_size, total_found - (p-1)*page_size)
\* articles, so that the pages together hold total_found articles; also
\* when a query is present and cluster representatives replace the scored
\* list.
C16_PagesDeliverTotal ==
    (Answered /\ as_ret.total_found > 0 /\ as_in.page_size >= 1
              /\ as_in.page \in 1..as_ret.total_pages) =>
        Len(as_ret.articles)
            = Min(as_in.page_size,
                  as_ret.total_found - (as_in.page - 1) * as_in.page_size)

\* The request's preferred_sources removed every article, or there was no
\* article.
NothingLeft ==
    \/ as_in.articles = <<>>
    \/ as_in.preferred_sources # <<>> /\ as_articles = <<>>

\* C17: when the source filter removes every article, or when there is no
\* article at all, the response is a normal response and not an error, with
\* an empty article list, total_found = 0, total_pages = 0 and a non-empty
\* message.
C17_EmptyResult ==
    (as_pc = "done" /\ NothingLeft) =>
        /\ as_ret.status = 200
        /\ as_ret.articles = <<>>
        /\ as_ret.total_found = 0
        /\ as_ret.total_pages = 0
        /\ as_ret.message # ""

\* Three articles, none of a preferred source: the response that says so.
C17_Witness ==
    /\ as_pc = "done" /\ as_in.articles = FewArticles
    /\ as_in.preferred_sources = <<<<"x">>>>
    /\ as_ret.message = "no_preferred_sources"
    /\ as_ret.available_sources # <<>>

\* The entry ps of preferred_sources, in lower case, occurs in the source
\* name of the article, in lower case.
OccursIgnoringCase(ps, name) ==
    \E from \in 1..(Len(name) + 1), to \in 0..Len(name) :
        Lower(SubSeq(name, from, to)) = Lower(ps)

\* C18: the source filter keeps an article if and only if at least one
\* entry of preferred_sources, compared case-insensitively, is a substring
\* of the article's source name; with an empty preferred_sources no article
\* is removed; the kept articles are in their order.
C18_SourceFilter ==
    as_pc # "filter" =>
        LET preferred(a) ==
                \E i \in 1..Len(as_in.preferred_sources) :
                    OccursIgnoringCase(as_in.preferred_sources[i], a.source)
        IN  /\ as_in.preferred_sources = <<>> => as_articles = as_in.articles
            /\ as_in.preferred_sources # <<>> =>
                   as_articles = SelectSeq(as_in.articles, preferred)

\* The preferred source "bbc" has kept the one article of "BBC" of three.
C18_Witness ==
    /\ as_pc # "filter" /\ as_in.articles = FewArticles
    /\ as_in.preferred_sources = <<<<"b", "b", "c">>>>
    /\ Len(as_articles) = 1 /\ as_articles[1].source = BBC

\* C21: nothing in the pipeline is fatal to a request: with page_size >= 1,
\* whatever the articles are (near-duplicates that make clusters merge on
\* more than 5 articles included), get_news returns a response object and
\* never the internal error.
C21_NeverInternalError ==
    (as_pc = "done" /\ as_in.page_size >= 1) => as_ret.status = 200

\* C30: with page_size >= 1 and a page number outside 1..total_pages
\* (below 1, negative pages included, or above total_pages), the response
\* holds no articles and is not an error.
C30_PageOutOfRange ==
    (as_pc = "done" /\ as_in.page_size >= 1 /\ as_ret.status = 200
                    /\ as_in.page \notin 1..as_ret.total_pages) =>
        as_ret.articles = <<>>

\* C28: under every interleaving of concurrent requests for one key, the
\* timestamp stored under the key never decreases: no step replaces an
\* entry by one with an earlier timestamp.
C28_TimestampMonotonic ==
    [][\A k \in DOMAIN NEWS_CACHE :
          k \in DOMAIN NEWS_CACHE' /\
          NEWS_CACHE'[k].timestamp >= NEWS_CACHE[k].timestamp]_vars

\* C22: an article carries a relevance score only when scoring assigned
\* it: the articles returned for a request with an empty query have none,
\* and no article record held in the cache has one.
C22_RelevanceOnlyFromScoring ==
    /\ (Answered /\ as_in.query = <<>>) =>
           \A i \in 1..Len(as_ret.articles) :
               as_ret.articles[i].relevance = NoRelevance
    /\ \A i \in 1..Len(as_cache) : as_cache[i].relevance = NoRelevance

\* The response of get_news (index.py 1310-1409) to a request whose list
\* `articles` is the given one.
ResponseTo(articles, request) ==
    LET available_sources == AvailableSources(articles, {})
        filtered == FilterBySource(articles, request.preferred_sources)
        ranked == Rank(filtered, request.query)
    IN  IF request.preferred_sources # <<>> /\ filtered = <<>>
        THEN EmptyResponse("no_preferred_sources", request.page, available_sources)
        ELSE IF ranked.raised # ""
        THEN InternalError
        ELSE IF ranked.filtered_articles = <<>>
        THEN EmptyResponse("no_articles", request.page, available_sources)
        ELSE IF request.page_size = 0
        THEN InternalError
        ELSE NewsResponse(
                 WithDefaultRelevance(PageOf(ranked.filtered_articles,
                                             ranked.total_matches,
                                             request.page, request.page_size)),
                 ranked.text, ranked.total_matches,
                 TotalPages(ranked.total_matches, request.page_size),
                 request.page, available_sources)

\* C26: handling a request never changes the article records held in the
\* cache: after any sequence of requests served from a live entry each
\* cached article has the fields and values it had when the entry was
\* stored, so the response to a request is the one the entry as stored
\* gives, whichever requests were served from the entry before.
C26_CacheRecordsUnchanged ==
    /\ as_cache = as_stored
    /\ as_pc = "done" => as_ret = ResponseTo(as_stored, as_in)

\* No two articles of the list have the same id.
DistinctIds(articles) ==
    \A i, j \in 1..Len(articles) : articles[i].id = articles[j].id => i = j

\* The Jaccard similarity of the word sets of a and b, |A n B| / |A u B|,
\* is defined and at least the threshold.
JaccardAtLeast(a, b, threshold) ==
    LET both == WordSet(a) \cap WordSet(b)
        any == WordSet(a) \cup WordSet(b)
    IN  /\ any # {}
        /\ threshold.den * Cardinality(both) >= threshold.num * Cardinality(any)

\* C24: for at most 5 articles with pairwise distinct ids,
\* direct_cluster_articles assigns greedily in first-seen order: every
\* article lands in exactly one cluster; each cluster is seeded by the
\* earliest article not yet clustered; every other member has Jaccard
\* similarity >= threshold with the seed and comes later in the input; an
\* article is in the cluster of the earliest seed it is similar to; an
\* article with an empty word set is a cluster of its own.
C24_DirectGreedy ==
    (cl_pc = "done" /\ Len(cl_articles) <= DirectLimit /\ DistinctIds(cl_articles)) =>
        LET clusters == cl_ret.clusters
            pos(a) == CHOOSE i \in 1..Len(cl_articles) : cl_articles[i] = a
            before(c) == UNION {Range(clusters[d]) : d \in 1..(c - 1)}
        IN  /\ cl_ret.raised = ""
            /\ IsPartition(clusters, cl_articles)
            /\ \A c \in 1..Len(clusters) :
                   LET seed == clusters[c][1]
                   IN  /\ \A a \in Range(cl_articles) \ before(c) :
                              pos(seed) <= pos(a)
                       /\ \A m \in 2..Len(clusters[c]) :
                              /\ JaccardAtLeast(seed, clusters[c][m], cl_threshold)
                              /\ pos(clusters[c][m]) > pos(seed)
                       /\ \A m \in 1..Len(clusters[c]), d \in 1..(c - 1) :
                              ~JaccardAtLeast(clusters[d][1], clusters[c][m],
                                              cl_threshold)
                       /\ (\E m \in 1..Len(clusters[c]) :
                               WordSet(clusters[c][m]) = {}) =>
                              Len(clusters[c]) = 1

\* Five articles with distinct ids: a cluster of two or more, three or more
\* clusters, a member that is similar to a later seed as well, and two
\* articles without words, each in a cluster of its own.
C24_Witness ==
    /\ cl_pc = "done" /\ Len(cl_articles) = DirectLimit /\ DistinctIds(cl_articles)
    /\ Len(cl_ret.clusters) >= 3
    /\ \E c, d \in 1..Len(cl_ret.clusters) :
           /\ c < d /\ Len(cl_ret.clusters[c]) >= 2
           /\ \E m \in 2..Len(cl_ret.clusters[c]) :
                  JaccardAtLeast(cl_ret.clusters[d][1], cl_ret.clusters[c][m],
                                 cl_threshold)
    /\ Cardinality({i \in 1..Len(cl_articles) : cl_articles[i].words = <<>>}) = 2

\* The merge pass as the claim describes it: each right cluster in turn is
\* merged into the first cluster of the result that has a cross pair with
\* it, or appended when there is none.
RECURSIVE MergeAsDescribed(_, _, _, _, _)
MergeAsDescribed(articles, result, right_clusters, j, threshold) ==
    IF j > Len(right_clusters)
    THEN result
    ELSE LET hits == {i \in 1..Len(result) :
                         CrossSimilar(articles, result[i], right_clusters[j],
                                      threshold)}
         IN  IF hits = {}
             THEN MergeAsDescribed(articles, Append(result, right_clusters[j]),
                                   right_clusters, j + 1, threshold)
             ELSE LET i == CHOOSE h \in hits : \A g \in hits : h <= g
                  IN  MergeAsDescribed(
                          articles,
                          [result EXCEPT ![i] = result[i] \o right_clusters[j]],
                          right_clusters, j + 1, threshold)

\* C23: in one merge pass of cluster_similar_articles (more than 5
\* articles), each right cluster is merged into the first result cluster
\* with which it has a cross pair of cosine similarity >= threshold over
\* equal-length vectors, a right cluster without such a pair is appended
\* unchanged as a new cluster, and a left cluster is merged with at most
\* one right cluster.
C23_MergePass ==
    (cl_pc = "done" /\ Len(cl_articles) > DirectLimit /\ DistinctIds(cl_articles)) =>
        LET mid == Len(cl_articles) \div 2
            left == cluster_similar_articles(SubSeq(cl_articles, 1, mid),
                                             cl_threshold).clusters
            right == cluster_similar_articles(
                         SubSeq(cl_articles, mid + 1, Len(cl_articles)),
                         cl_threshold).clusters
            described == MergeAsDescribed(cl_articles, left, right, 1, cl_threshold)
        IN  /\ cl_ret.raised = ""
            /\ Len(cl_ret.clusters) = Len(described)
            /\ \A c \in 1..Len(described) :
                   Range(cl_ret.clusters[c]) = Range(described[c])
            /\ \A r \in 1..Len(right) :
                   (\A i \in 1..Len(left) :
                        ~CrossSimilar(cl_articles, left[i], right[r], cl_threshold))
                   => \E c \in 1..Len(cl_ret.clusters) : cl_ret.clusters[c] = right[r]
            /\ \A i \in 1..Len(left) :
                   Cardinality({r \in 1..Len(right) :
                                   Range(right[r]) \subseteq Range(cl_ret.clusters[i])})
                       <= 1

\* C25: fetch_all_feeds dispatches exactly one fetch task per feed URL and
\* returns only after every dispatched task has terminated (returned or
\* raised): when the deduplicated list exists, and so when any later stage
\* of the request runs, no feed fetch of the call is still running, and
\* the result of each task has been collected exactly once.
C25_ReturnsAfterAllTasks ==
    /\ DOMAIN ff_task = 1..NumFeeds
    /\ \A i, j \in 1..Len(ff_collected) :
           ff_collected[i] = ff_collected[j] => i = j
    /\ (ff_pc = "returned" \/ ff_ret # NoValue) =>
           /\ \A f \in 1..NumFeeds : ff_task[f] = "done"
           /\ Range(ff_collected) = 1..NumFeeds

\* The call has returned; the tasks ended in another order than they were
\* dispatched in, one of them by raising.
C25_Witness ==
    /\ ff_pc = "returned" /\ ff_ret # NoValue
    /\ \A f \in 1..NumFeeds : ff_task[f] = "done"
    /\ ff_collected = <<3, 1, 2>>
    /\ ff_outcome[1].raises /\ ~ff_outcome[2].raises

\* C27: the list stored under a cache key depends only on the key and on
\* what the feeds returned, not on the query of the request that populated
\* the key: no stored article was selected by a search string, and a request
\* served from the cache gets no article that was selected for the query of
\* another request.
C27_StoredIndependentOfQuery ==
    /\ \A k \in DOMAIN NEWS_CACHE :
           \A i \in 1..Len(NEWS_CACHE[k].articles) :
               NEWS_CACHE[k].articles[i].q = ""
    /\ (last.pc = "done" /\ last.hit) =>
           \A i \in 1..Len(last.articles) :
               last.articles[i].q \in {"", last.query}

\* C29: every request that misses the cache and fetches has stored an entry
\* under its key when it responds, also when the fetched list is empty; and
\* as long as less than 1800 s have passed since a timestamp stored under a
\* key, a request for that key is answered from the cache (the entry under
\* the key is live), without a new fetch.
C29_StoredThenServed ==
    /\ (last.pc = "done" /\ last.fetches > 0) =>
           /\ last.stored
           /\ last.cache_key \in DOMAIN NEWS_CACHE
    /\ \A k \in DOMAIN put :
           \A ts \in put[k].stamps :
               now - ts < CACHE_EXPIRY => CacheLive(NEWS_CACHE, k, now)

=============================================================================
